---- MODULE Spec2Model ----
(***************************************************************************)
(* Model of currency_analyzer.py: one run of main(), from the interactive *)
(* selection through fetch, analysis, persistence and the text report.    *)
(*                                                                         *)
(* Strings the program inspects character by character (console input,    *)
(* currency codes) are sequences of one-character strings.  Rates are     *)
(* fixed-point integers: Unit4 model units make up 0.0001 of the home     *)
(* currency, so a snapshot can carry more decimals than the four the      *)
(* program keeps when it rounds, and subtraction is exact.                *)
(***************************************************************************)
EXTENDS Integers, Sequences, FiniteSets, TLC

VARIABLES
    pc,            \* where main is: select, fetch, analyze, save, report,
                   \* done (returned) or crashed (an exception left main)
    stdin,         \* the lines input() was asked for
    selected,      \* main's list of requested codes
    fetchOutcome,  \* how the HTTP request and JSON parse went
    data,          \* what get_exchange_rates returned
    currencies,    \* what analyze_currencies returned
    locals,        \* change and change_percent of each appended record
    df,            \* what save_to_csv returned
    csvFile, jsonFile, reportFile,
    best_to_buy, best_to_sell,
    diag,          \* diagnostics printed, in order
    events,        \* stages entered, in order
    error          \* the exception that ended the run, if any

vars == <<pc, stdin, selected, fetchOutcome, data, currencies, locals, df,
          csvFile, jsonFile, reportFile, best_to_buy, best_to_sell,
          diag, events, error>>

(***************************************************************************)
(* Bounds of the model.                                                    *)
(***************************************************************************)
\* model units per 0.0001: the resolution a snapshot value has below the
\* fourth decimal
Unit4 == 10
\* longest free-form line enumerated exhaustively over Alphabet
MaxInputLen == 3
\* largest number of entries of a snapshot's Valute section
MaxValute == 2

(***************************************************************************)
(* Currency codes.                                                         *)
(***************************************************************************)
USD == <<"U", "S", "D">>
EUR == <<"E", "U", "R">>
CNY == <<"C", "N", "Y">>
GBP == <<"G", "B", "P">>
JPY == <<"J", "P", "Y">>
CHF == <<"C", "H", "F">>
CAD == <<"C", "A", "D">>
AUD == <<"A", "U", "D">>
SGD == <<"S", "G", "D">>
HKD == <<"H", "K", "D">>
NOK == <<"N", "O", "K">>
SEK == <<"S", "E", "K">>
TRY == <<"T", "R", "Y">>
UAH == <<"U", "A", "H">>
KZT == <<"K", "Z", "T">>
BYN == <<"B", "Y", "N">>
INR == <<"I", "N", "R">>
BRL == <<"B", "R", "L">>
ZAR == <<"Z", "A", "R">>
KRW == <<"K", "R", "W">>

\* keys of ALL_CURRENCIES in insertion order
ALL_CURRENCIES ==
    <<USD, EUR, CNY, GBP, JPY, CHF, CAD, AUD, SGD, HKD,
      NOK, SEK, TRY, UAH, KZT, BYN, INR, BRL, ZAR, KRW>>

Fixed5 == <<USD, EUR, CNY, GBP, JPY>>

Fixed10 == <<USD, EUR, GBP, CHF, JPY, CAD, AUD, CNY, SGD, HKD>>

(***************************************************************************)
(* str.strip, str.upper and str.split(',') on character sequences.        *)
(***************************************************************************)
IsSpace(c) == c \in {" ", "\t"}

UpperChar(c) ==
    CASE c = "u" -> "U"
      [] c = "s" -> "S"
      [] c = "d" -> "D"
      [] c = "e" -> "E"
      [] c = "r" -> "R"
      [] c = "c" -> "C"
      [] c = "n" -> "N"
      [] c = "y" -> "Y"
      [] OTHER -> c

Upper(s) == [i \in 1..Len(s) |-> UpperChar(s[i])]

RECURSIVE LStrip(_)
LStrip(s) ==
    IF s # <<>> /\ IsSpace(Head(s)) THEN LStrip(Tail(s)) ELSE s

RECURSIVE RStrip(_)
RStrip(s) ==
    IF s # <<>> /\ IsSpace(s[Len(s)])
    THEN RStrip(SubSeq(s, 1, Len(s) - 1))
    ELSE s

Strip(s) == RStrip(LStrip(s))

\* s.split(','): the fields between commas, empty fields included
RECURSIVE SplitComma(_, _)
SplitComma(s, field) ==
    IF s = <<>> THEN <<field>>
    ELSE IF Head(s) = ","
         THEN <<field>> \o SplitComma(Tail(s), <<>>)
         ELSE SplitComma(Tail(s), Append(field, Head(s)))

\* [c.strip() for c in fields if c.strip()]
RECURSIVE StripNonEmpty(_)
StripNonEmpty(fields) ==
    IF fields = <<>> THEN <<>>
    ELSE IF Strip(Head(fields)) # <<>>
         THEN <<Strip(Head(fields))>> \o StripNonEmpty(Tail(fields))
         ELSE StripNonEmpty(Tail(fields))

\* variant: the line is not upper-cased
ParseCodesAsTyped(line) ==
    StripNonEmpty(SplitComma(Strip(line), <<>>))

\* lines 216-217
ParseCodes(line) ==
    StripNonEmpty(SplitComma(Upper(Strip(line)), <<>>))

(***************************************************************************)
(* Console input: what input() returns, or the exception it raises.       *)
(***************************************************************************)
Typed(text) == [raises |-> FALSE, text |-> text]

InputFails == [raises |-> TRUE, text |-> <<>>]

ChoiceLines ==
    { <<"1">>, <<" ", "1">>, <<"2">>, <<"3">>, <<"4">>, <<"4", " ">>,
      <<"5">>, <<"1", "1">>, <<>> }

Alphabet == {"u", " ", ","}

RECURSIVE SeqsUpTo(_, _)
SeqsUpTo(S, n) ==
    IF n = 0 THEN {<<>>}
    ELSE LET shorter == SeqsUpTo(S, n - 1)
         IN  shorter \cup {Append(s, c) : s \in shorter, c \in S}

SampleLines ==
    { <<"u", "s", "d">>,
      <<"C", "N", "Y">>,
      <<"u", "s", "d", ",", " ", "e", "u", "r">>,
      <<"e", "u", "r", ",", "u", "s", "d">>,
      <<"u", ",", "U", "S", "D">>,
      <<"c", "n", "y", ",", "c", "n", "y">>,
      <<" ", "c", "n", "y", " ", ",", ",", "u", ",", " ", "e", "u", "r">>,
      <<"c", "n", "y", ",", "e", "u", "r", ",", "u", "s", "d">>,
      <<"c", "n", "y", ",", "u", ",", "e", "u", "r", ",", "c", "n", "y">> }

FreeFormLines == SeqsUpTo(Alphabet, MaxInputLen) \cup SampleLines

\* lines 201-225 of main: the menu choice and, for choice 4, the code list
SelectCodes(first, second) ==
    IF first.raises THEN Fixed5
    ELSE LET choice == Strip(first.text) IN
         CASE choice = <<"1">> -> Fixed5
           [] choice = <<"2">> -> Fixed10
           [] choice = <<"3">> -> ALL_CURRENCIES
           [] choice = <<"4">> ->
                IF second.raises THEN Fixed5 ELSE ParseCodes(second.text)
           [] OTHER -> Fixed5

(***************************************************************************)
(* The rate source: what requests.get(...).json() can hand back.          *)
(***************************************************************************)
\* a rate of the previous day, in model units (0.0300)
PreviousRate == 300 * Unit4

\* 0.01 in model units
Threshold == 100 * Unit4

\* day-over-day changes around the tier boundaries and below the fourth
\* decimal
Deltas ==
    { 0 - (Threshold + 1), 0 - Threshold, 0 - (Unit4 \div 2 - 1), 0,
      Unit4 \div 2 - 1, Threshold, Threshold + 1 }

Entries ==
    { [Name |-> "name", Value |-> p + d, Previous |-> p, Nominal |-> 1] :
        p \in {PreviousRate}, d \in Deltas }
    \cup
    { [Name |-> "name", Value |-> d, Previous |-> 0, Nominal |-> 100] :
        d \in {x \in Deltas : x >= 0} }

SnapshotCodes == {USD, EUR, CNY}

Snapshots ==
    UNION { [D -> Entries] :
              D \in {X \in SUBSET SnapshotCodes : Cardinality(X) <= MaxValute} }

\* Python's None, and a parsed JSON object with its top-level keys
None == [isNone |-> TRUE, keys |-> {}, Valute |-> <<>>]

JsonObject(keys, valute) == [isNone |-> FALSE, keys |-> keys, Valute |-> valute]

Bodies ==
    { JsonObject({}, <<>>), JsonObject({"Date"}, <<>>) }
    \cup { JsonObject({"Date", "Valute"}, v) : v \in Snapshots }

FetchOutcomes == {"ok", "network_error", "timeout", "bad_json"}

\* `not x` for None and for a dict
Falsy(d) == d.isNone \/ d.keys = {}

\* variant: whatever was received is returned, failure or not
get_exchange_rates_unguarded(outcome, body) == body

\* get_exchange_rates: the parsed body, or None when anything was raised
get_exchange_rates(outcome, body) ==
    IF outcome = "ok" THEN body ELSE None

(***************************************************************************)
(* analyze_currencies.                                                     *)
(***************************************************************************)
\* Python's round(): to the nearest multiple, ties to the even one
\* (den > 0; the result counts multiples of den)
RoundHalfEven(num, den) ==
    LET q == num \div den
        r == num % den
    IN  IF 2 * r < den THEN q
        ELSE IF 2 * r > den THEN q + 1
        ELSE IF q % 2 = 0 THEN q ELSE q + 1

\* round(x, 4), in units of 0.0001
Round4(x) == RoundHalfEven(x, Unit4)

\* variant: the operands of the subtraction swapped
ChangeReversed(currency) == currency.Previous - currency.Value

\* lines 76-77: change, and change_percent as the fraction num/den
Change(currency) == currency.Value - currency.Previous

ChangePercent(currency) ==
    IF currency.Previous # 0
    THEN [num |-> Change(currency) * 100, den |-> currency.Previous]
    ELSE [num |-> 0, den |-> 1]

\* round(change_percent, 2), in units of 0.01 %
RoundPercent2(pct) == RoundHalfEven(pct.num * 100, pct.den)

\* variant: the strong tiers take the boundary values too
RecommendationInclusive(change) ==
    IF change >= Threshold THEN "StrongGrowth"
    ELSE IF change > 0 THEN "Growth"
    ELSE IF change <= 0 - Threshold THEN "StrongDecline"
    ELSE IF change < 0 THEN "Decline"
    ELSE "Unchanged"

\* lines 80-89
Recommendation(change) ==
    IF change > Threshold THEN "StrongGrowth"
    ELSE IF change > 0 THEN "Growth"
    ELSE IF change < 0 - Threshold THEN "StrongDecline"
    ELSE IF change < 0 THEN "Decline"
    ELSE "Unchanged"

\* lines 91-99
CurrencyInfo(code, currency) ==
    [ Code |-> code,
      Name |-> currency.Name,
      Rate |-> Round4(currency.Value),
      Change |-> Round4(Change(currency)),
      ChangePercent |-> RoundPercent2(ChangePercent(currency)),
      Recommendation |-> Recommendation(Change(currency)),
      Nominal |-> currency.Nominal ]

\* the loop's locals for one analyzed code
Locals(code, currency) ==
    [ code |-> code,
      change |-> Change(currency),
      change_percent |-> ChangePercent(currency) ]

\* variant: each new row is put in front of the rows collected so far
RECURSIVE AnalyzeLoopNewestFirst(_, _)
AnalyzeLoopNewestFirst(valute, codes) ==
    IF codes = <<>> THEN <<>>
    ELSE IF Head(codes) \in DOMAIN valute
         THEN AnalyzeLoopNewestFirst(valute, Tail(codes))
              \o <<CurrencyInfo(Head(codes), valute[Head(codes)])>>
         ELSE AnalyzeLoopNewestFirst(valute, Tail(codes))

\* lines 70-109: the rows appended, in loop order
RECURSIVE AnalyzeLoop(_, _)
AnalyzeLoop(valute, codes) ==
    IF codes = <<>> THEN <<>>
    ELSE IF Head(codes) \in DOMAIN valute
         THEN <<CurrencyInfo(Head(codes), valute[Head(codes)])>>
              \o AnalyzeLoop(valute, Tail(codes))
         ELSE AnalyzeLoop(valute, Tail(codes))

RECURSIVE LocalsLoop(_, _)
LocalsLoop(valute, codes) ==
    IF codes = <<>> THEN <<>>
    ELSE IF Head(codes) \in DOMAIN valute
         THEN <<Locals(Head(codes), valute[Head(codes)])>>
              \o LocalsLoop(valute, Tail(codes))
         ELSE LocalsLoop(valute, Tail(codes))

\* one "not found" diagnostic per requested code the snapshot lacks
RECURSIVE NotFoundDiag(_, _)
NotFoundDiag(valute, codes) ==
    IF codes = <<>> THEN <<>>
    ELSE IF Head(codes) \in DOMAIN valute
         THEN NotFoundDiag(valute, Tail(codes))
         ELSE <<"not_found">> \o NotFoundDiag(valute, Tail(codes))

NoneResult == [isNone |-> TRUE, rows |-> <<>>]

\* analyze_currencies(data, selected_currencies); main always passes a list
analyze_currencies(d, selected_currencies) ==
    IF Falsy(d) \/ "Valute" \notin d.keys
    THEN NoneResult
    ELSE [isNone |-> FALSE, rows |-> AnalyzeLoop(d.Valute, selected_currencies)]

(***************************************************************************)
(* Output files of the run: not yet touched, left incomplete by a failed  *)
(* write, or written in full.                                              *)
(***************************************************************************)
Absent == [status |-> "absent", content |-> <<>>]

Written(content) == [status |-> "written", content |-> content]

\* what a write that raised can leave behind
FailedWrites == { Absent, [status |-> "partial", content |-> <<>>] }

WriteOutcomes == {"ok", "OSError"}

(***************************************************************************)
(* generate_report.                                                        *)
(***************************************************************************)
Rows(frame) == 1..Len(frame)

\* df[df['Change'] < 0] and df[df['Change'] > 0], as row labels
Falling(frame) == {i \in Rows(frame) : frame[i].Change < 0}

Rising(frame) == {i \in Rows(frame) : frame[i].Change > 0}

\* .sort_values('Change').head(1): the default sort kind is not stable, so
\* any row carrying the smallest key can come first
SortHeadAscending(frame, labels) ==
    {i \in labels : \A j \in labels : frame[i].Change <= frame[j].Change}

\* .sort_values('Change', ascending=False).head(1)
SortHeadDescending(frame, labels) ==
    {i \in labels : \A j \in labels : frame[i].Change >= frame[j].Change}

EmptyFrame == [empty |-> TRUE, label |-> 0, Code |-> <<>>]

OneRow(frame, i) == [empty |-> FALSE, label |-> i, Code |-> frame[i].Code]

\* line 135
BestToBuy(frame) ==
    IF Falling(frame) = {} THEN {EmptyFrame}
    ELSE {OneRow(frame, i) : i \in SortHeadAscending(frame, Falling(frame))}

\* line 145
BestToSell(frame) ==
    IF Rising(frame) = {} THEN {EmptyFrame}
    ELSE {OneRow(frame, i) : i \in SortHeadDescending(frame, Rising(frame))}

\* lines 156-157: .values[0] of the USD rows and of the EUR rows
StatisticsRaise(frame) ==
    \/ ~ \E i \in Rows(frame) : frame[i].Code = USD
    \/ ~ \E i \in Rows(frame) : frame[i].Code = EUR

NoOptions == <<"no options">>

\* lines 160-173
ReportText(frame, buy, sell) ==
    [ buy |-> IF buy.empty THEN NoOptions ELSE buy.Code,
      sell |-> IF sell.empty THEN NoOptions ELSE sell.Code,
      lines |-> [i \in Rows(frame) |->
                    [Code |-> frame[i].Code, Rate |-> frame[i].Rate,
                     Change |-> frame[i].Change]] ]

(***************************************************************************)
(* main, one action per stage.                                             *)
(***************************************************************************)
Init ==
    /\ pc = "select"
    /\ stdin = <<>>
    /\ selected = <<>>
    /\ fetchOutcome = "none"
    /\ data = None
    /\ currencies = NoneResult
    /\ locals = <<>>
    /\ df = NoneResult
    /\ csvFile = Absent
    /\ jsonFile = Absent
    /\ reportFile = Absent
    /\ best_to_buy = EmptyFrame
    /\ best_to_sell = EmptyFrame
    /\ diag = <<>>
    /\ events = <<>>
    /\ error = "none"

\* the lines input() is asked for: one, or two when the choice is 4
ConsoleSessions ==
    { <<InputFails>> }
    \cup { <<Typed(c)>> : c \in {x \in ChoiceLines : Strip(x) # <<"4">>} }
    \cup { <<Typed(c), InputFails>> : c \in {x \in ChoiceLines : Strip(x) = <<"4">>} }
    \cup { <<Typed(c), Typed(l)>> :
             c \in {x \in ChoiceLines : Strip(x) = <<"4">>}, l \in FreeFormLines }

SelectDiag(session) ==
    IF \E i \in 1..Len(session) : session[i].raises THEN <<"input_error">>
    ELSE IF Strip(session[1].text) \in {<<"1">>, <<"2">>, <<"3">>, <<"4">>} THEN <<>>
    ELSE <<"invalid_choice">>

\* lines 231-233: `if not data: return`
AfterFetch(d) == IF Falsy(d) THEN "done" ELSE "analyze"

\* variant: `if currencies is None: return`
AfterAnalyzeNoneOnly(result) ==
    IF result.isNone THEN "done" ELSE "save"

\* lines 237-239: `if not currencies: return`
AfterAnalyze(result) ==
    IF result.isNone \/ result.rows = <<>> THEN "done" ELSE "save"

\* lines 201-225
Select ==
    /\ pc = "select"
    /\ \E session \in ConsoleSessions :
         /\ stdin' = session
         /\ selected' = SelectCodes(session[1], session[Len(session)])
         /\ diag' = diag \o SelectDiag(session)
    /\ events' = Append(events, "select")
    /\ pc' = "fetch"
    /\ UNCHANGED <<fetchOutcome, data, currencies, locals, df, csvFile, jsonFile,
                   reportFile, best_to_buy, best_to_sell, error>>

\* lines 229-233
Fetch ==
    /\ pc = "fetch"
    /\ \E outcome \in FetchOutcomes, body \in Bodies :
         /\ fetchOutcome' = outcome
         /\ data' = get_exchange_rates(outcome, body)
         /\ diag' = diag
                    \o (IF outcome = "ok" THEN <<>> ELSE <<"fetch_error">>)
                    \o (IF AfterFetch(data') = "done" THEN <<"no_data">> ELSE <<>>)
         /\ pc' = AfterFetch(data')
    /\ events' = Append(events, "fetch")
    /\ UNCHANGED <<stdin, selected, currencies, locals, df, csvFile, jsonFile,
                   reportFile, best_to_buy, best_to_sell, error>>

\* lines 235-239
Analyze ==
    /\ pc = "analyze"
    /\ currencies' = analyze_currencies(data, selected)
    /\ locals' = IF currencies'.isNone THEN <<>>
                 ELSE LocalsLoop(data.Valute, selected)
    /\ diag' = diag
               \o (IF currencies'.isNone THEN <<"no_valute">>
                   ELSE NotFoundDiag(data.Valute, selected))
               \o (IF AfterAnalyze(currencies') = "done"
                   THEN <<"analysis_failed">> ELSE <<>>)
    /\ pc' = AfterAnalyze(currencies')
    /\ events' = Append(events, "analyze")
    /\ UNCHANGED <<stdin, selected, fetchOutcome, data, df, csvFile, jsonFile,
                   reportFile, best_to_buy, best_to_sell, error>>

\* variant: the JSON is written before the CSV
SaveToCsvJsonFirst ==
    /\ pc = "save"
    /\ diag' = diag
    /\ \E csv \in WriteOutcomes, json \in WriteOutcomes :
         IF json # "ok"
         THEN /\ jsonFile' \in FailedWrites
              /\ csvFile' = csvFile
              /\ events' = Append(events, "write_json")
              /\ df' = df
              /\ error' = json
              /\ pc' = "crashed"
         ELSE /\ jsonFile' = Written(currencies.rows)
              /\ events' = events \o <<"write_json", "write_csv">>
              /\ IF csv # "ok"
                 THEN /\ csvFile' \in FailedWrites
                      /\ df' = df
                      /\ error' = csv
                      /\ pc' = "crashed"
                 ELSE /\ csvFile' = Written(currencies.rows)
                      /\ df' = [isNone |-> FALSE, rows |-> currencies.rows]
                      /\ error' = error
                      /\ pc' = "report"
    /\ UNCHANGED <<stdin, selected, fetchOutcome, data, currencies, locals,
                   reportFile, best_to_buy, best_to_sell>>

\* lines 241-242 and save_to_csv (lines 115-127): the CSV, then the JSON
SaveToCsv ==
    /\ pc = "save"
    /\ IF currencies.isNone \/ currencies.rows = <<>>
       THEN /\ diag' = Append(diag, "nothing_to_save")
            /\ df' = NoneResult
            /\ pc' = "report"
            /\ UNCHANGED <<csvFile, jsonFile, events, error>>
       ELSE /\ diag' = diag
            /\ \E csv \in WriteOutcomes, json \in WriteOutcomes :
                 IF csv # "ok"
                 THEN /\ csvFile' \in FailedWrites
                      /\ jsonFile' = jsonFile
                      /\ events' = Append(events, "write_csv")
                      /\ df' = df
                      /\ error' = csv
                      /\ pc' = "crashed"
                 ELSE /\ csvFile' = Written(currencies.rows)
                      /\ events' = events \o <<"write_csv", "write_json">>
                      /\ IF json # "ok"
                         THEN /\ jsonFile' \in FailedWrites
                              /\ df' = df
                              /\ error' = json
                              /\ pc' = "crashed"
                         ELSE /\ jsonFile' = Written(currencies.rows)
                              /\ df' = [isNone |-> FALSE, rows |-> currencies.rows]
                              /\ error' = error
                              /\ pc' = "report"
    /\ UNCHANGED <<stdin, selected, fetchOutcome, data, currencies, locals,
                   reportFile, best_to_buy, best_to_sell>>

\* line 244 and generate_report (lines 131-178)
GenerateReport ==
    /\ pc = "report"
    /\ IF df.isNone
       THEN /\ error' = "TypeError"
            /\ pc' = "crashed"
            /\ events' = Append(events, "generate_report")
            /\ UNCHANGED <<reportFile, best_to_buy, best_to_sell>>
       ELSE /\ best_to_buy' \in BestToBuy(df.rows)
            /\ best_to_sell' \in BestToSell(df.rows)
            /\ IF StatisticsRaise(df.rows)
               THEN /\ error' = "IndexError"
                    /\ pc' = "crashed"
                    /\ events' = Append(events, "generate_report")
                    /\ UNCHANGED reportFile
               ELSE /\ events' = events \o <<"generate_report", "write_report">>
                    /\ \E txt \in WriteOutcomes :
                         IF txt # "ok"
                         THEN /\ reportFile' \in FailedWrites
                              /\ error' = txt
                              /\ pc' = "crashed"
                         ELSE /\ reportFile' =
                                   Written(ReportText(df.rows, best_to_buy', best_to_sell'))
                              /\ error' = error
                              /\ pc' = "done"
    /\ UNCHANGED <<stdin, selected, fetchOutcome, data, currencies, locals, df,
                   csvFile, jsonFile, diag>>

Next == Select \/ Fetch \/ Analyze \/ SaveToCsv \/ GenerateReport

Spec == Init /\ [][Next]_vars

(***************************************************************************)
(* Vocabulary of the properties.                                           *)
(***************************************************************************)
Happened(e) == \E i \in 1..Len(events) : events[i] = e

Times(e) == Cardinality({i \in 1..Len(events) : events[i] = e})

\* analyze_currencies ran on a response that has a Valute section
Analyzed == Happened("analyze") /\ ~currencies.isNone

\* generate_report ran on the saved rows
ReportRan == Happened("generate_report") /\ ~df.isNone

RunEnded == pc \in {"done", "crashed"}

NoFileTouched == csvFile = Absent /\ jsonFile = Absent /\ reportFile = Absent

Present(code) == code \in DOMAIN data.Valute

CodesOf(rows) == [i \in 1..Len(rows) |-> rows[i].Code]

\* the snapshot entry a row was computed from
EntryOf(row) == data.Valute[row.Code]

(***************************************************************************)
(* C1.  The analyzer returns the requested codes that the snapshot holds, *)
(* in the order requested, repeats kept; codes the snapshot lacks are     *)
(* skipped, each with a diagnostic, and nothing is raised.                *)
(***************************************************************************)
C1_RequestedOrderKept ==
    Analyzed =>
        /\ CodesOf(currencies.rows) = SelectSeq(selected, Present)
        /\ Times("analyze") = 1
        /\ pc # "analyze"
        /\ Cardinality({i \in 1..Len(diag) : diag[i] = "not_found"})
             = Len(selected) - Len(currencies.rows)

C1_Witness ==
    /\ Analyzed
    /\ Len(currencies.rows) >= 3
    /\ Len(currencies.rows) < Len(selected)
    /\ \E i \in 1..Len(selected) : ~Present(selected[i])
    /\ \E i, j \in 1..Len(currencies.rows) :
         i < j /\ currencies.rows[i].Code = currencies.rows[j].Code
    /\ \E i \in 1..Len(currencies.rows) :
         currencies.rows[i].Code # currencies.rows[1].Code

(***************************************************************************)
(* C2.  The recommendation of every analyzed record is the tier of its    *)
(* change value - previous: above 0.01 StrongGrowth, in (0, 0.01] Growth, *)
(* below -0.01 StrongDecline, in [-0.01, 0) Decline, at 0 Unchanged.      *)
(***************************************************************************)
C2_TierPartition ==
    Analyzed =>
        \A i \in 1..Len(currencies.rows) :
            LET row == currencies.rows[i]
                c == EntryOf(row).Value - EntryOf(row).Previous
                tier == row.Recommendation
            IN  /\ c > Threshold => tier = "StrongGrowth"
                /\ (0 < c /\ c <= Threshold) => tier = "Growth"
                /\ c < 0 - Threshold => tier = "StrongDecline"
                /\ (0 - Threshold <= c /\ c < 0) => tier = "Decline"
                /\ c = 0 => tier = "Unchanged"
                /\ tier \in {"StrongGrowth", "Growth", "StrongDecline",
                             "Decline", "Unchanged"}

C2_Witness ==
    /\ Analyzed
    /\ \E i, j \in 1..Len(currencies.rows) :
         LET ri == currencies.rows[i]
             rj == currencies.rows[j]
         IN  /\ EntryOf(ri).Value - EntryOf(ri).Previous = Threshold
             /\ ri.Recommendation = "Growth"
             /\ EntryOf(rj).Value - EntryOf(rj).Previous = 0 - Threshold
             /\ rj.Recommendation = "Decline"

FirstLowest(frame, labels) ==
    CHOOSE i \in labels : \A j \in labels :
        \/ frame[i].Change < frame[j].Change
        \/ frame[i].Change = frame[j].Change /\ i <= j

FirstHighest(frame, labels) ==
    CHOOSE i \in labels : \A j \in labels :
        \/ frame[i].Change > frame[j].Change
        \/ frame[i].Change = frame[j].Change /\ i <= j

(***************************************************************************)
(* C3.  generate_report picks as best-to-buy the first row, in input      *)
(* order, among those with the most negative change, and as best-to-sell  *)
(* the first among those with the largest positive change; either is      *)
(* absent, and the placeholder written, exactly when no row has a change  *)
(* of that sign.                                                           *)
(***************************************************************************)
C3_FirstOccurrenceWins ==
    ReportRan =>
        /\ best_to_buy.empty <=> Falling(df.rows) = {}
        /\ best_to_sell.empty <=> Rising(df.rows) = {}
        /\ ~best_to_buy.empty =>
             best_to_buy.Code = df.rows[FirstLowest(df.rows, Falling(df.rows))].Code
        /\ ~best_to_sell.empty =>
             best_to_sell.Code = df.rows[FirstHighest(df.rows, Rising(df.rows))].Code
        /\ reportFile.status = "written" =>
             /\ reportFile.content.buy = NoOptions <=> Falling(df.rows) = {}
             /\ reportFile.content.sell = NoOptions <=> Rising(df.rows) = {}

(***************************************************************************)
(* C4.  A fetch that fails (network error, timeout, unparsable body)      *)
(* makes get_exchange_rates return None without raising; main then        *)
(* returns with a diagnostic, the analyzer never runs, no file is         *)
(* touched, and the fetch was issued once.                                *)
(***************************************************************************)
C4_FetchFailureAborts ==
    fetchOutcome \in {"network_error", "timeout", "bad_json"} =>
        /\ data = None
        /\ pc = "done"
        /\ error = "none"
        /\ ~Happened("analyze")
        /\ NoFileTouched
        /\ Times("fetch") = 1
        /\ diag # <<>> /\ diag[Len(diag)] = "no_data"

C4_Witness ==
    /\ fetchOutcome = "timeout"
    /\ pc = "done"
    /\ selected = Fixed10

NothingMatches ==
    \/ "Valute" \notin data.keys
    \/ \A i \in 1..Len(selected) : ~Present(selected[i])

(***************************************************************************)
(* C5.  When the fetch succeeds but no requested code is in the snapshot  *)
(* (unknown codes only, an empty list, a response without Valute), the    *)
(* run returns with a diagnostic, raises nothing and touches no file.     *)
(***************************************************************************)
C5_EmptySelectionAborts ==
    (fetchOutcome = "ok" /\ NothingMatches) =>
        /\ pc \in {"analyze", "done"}
        /\ error = "none"
        /\ NoFileTouched
        /\ pc = "done" =>
             diag # <<>> /\ diag[Len(diag)] \in {"no_data", "analysis_failed"}
        /\ Happened("analyze") => pc = "done"

C5_Witness ==
    /\ fetchOutcome = "ok"
    /\ NothingMatches
    /\ "Valute" \in data.keys
    /\ DOMAIN data.Valute # {}
    /\ selected # <<>>
    /\ pc = "done"
    /\ diag[Len(diag)] = "analysis_failed"

Capitals ==
    { <<"u", "U">>, <<"s", "S">>, <<"d", "D">>, <<"e", "E">>,
      <<"r", "R">>, <<"c", "C">>, <<"n", "N">>, <<"y", "Y">> }

Capital(c) ==
    IF \E p \in Capitals : p[1] = c
    THEN (CHOOSE p \in Capitals : p[1] = c)[2]
    ELSE c

Commas(line) == {i \in 1..Len(line) : line[i] = ","}

\* position of the k-th comma of the line
NthComma(line, k) ==
    CHOOSE c \in Commas(line) :
        Cardinality({d \in Commas(line) : d < c}) = k - 1

\* positions of the k-th field that hold something other than blanks
FieldInk(line, k) ==
    LET from == IF k = 1 THEN 1 ELSE NthComma(line, k - 1) + 1
        to == IF k = Cardinality(Commas(line)) + 1
              THEN Len(line) ELSE NthComma(line, k) - 1
    IN  {i \in from..to : line[i] \notin {" ", "\t"}}

Lowest(S) == CHOOSE x \in S : \A y \in S : x <= y

Highest(S) == CHOOSE x \in S : \A y \in S : x >= y

FieldsKept(line) ==
    {k \in 1..(Cardinality(Commas(line)) + 1) : FieldInk(line, k) # {}}

TypedCodes(line) ==
    [ j \in 1..Cardinality(FieldsKept(line)) |->
        LET k == CHOOSE f \in FieldsKept(line) :
                   Cardinality({g \in FieldsKept(line) : g < f}) = j - 1
            lo == Lowest(FieldInk(line, k))
            hi == Highest(FieldInk(line, k))
        IN  [i \in 1..(hi - lo + 1) |-> Capital(line[lo + i - 1])] ]

\* the choice line without the blanks around it
Bare(text) ==
    IF \A i \in 1..Len(text) : text[i] \in {" ", "\t"} THEN <<>>
    ELSE LET ink == {i \in 1..Len(text) : text[i] \notin {" ", "\t"}}
         IN  SubSeq(text, Lowest(ink), Highest(ink))

(***************************************************************************)
(* C6.  Once the selection step is over the code list is fixed: choice 1  *)
(* gives the 5-code set, 2 the 10-code set, 3 the catalog, 4 the typed    *)
(* comma-separated fields, each trimmed and upper-cased, blank fields     *)
(* dropped, nothing else filtered; any other choice and any input error   *)
(* give [USD, EUR, CNY, GBP, JPY]; and the fetch is what comes next.      *)
(***************************************************************************)
C6_SelectionRule ==
    pc # "select" =>
        /\ Len(events) >= 1 /\ events[1] = "select"
        /\ Len(events) >= 2 => events[2] = "fetch"
        /\ pc = "fetch" <=> Len(events) = 1
        /\ IF \E i \in 1..Len(stdin) : stdin[i].raises
           THEN selected = <<USD, EUR, CNY, GBP, JPY>>
           ELSE LET choice == Bare(stdin[1].text) IN
                /\ choice = <<"1">> => selected = <<USD, EUR, CNY, GBP, JPY>>
                /\ choice = <<"2">> =>
                     selected = <<USD, EUR, GBP, CHF, JPY, CAD, AUD, CNY, SGD, HKD>>
                /\ choice = <<"3">> =>
                     /\ Len(selected) = 20
                     /\ selected = ALL_CURRENCIES
                /\ choice = <<"4">> =>
                     /\ Len(stdin) = 2
                     /\ selected = TypedCodes(stdin[2].text)
                /\ choice \notin {<<"1">>, <<"2">>, <<"3">>, <<"4">>} =>
                     selected = <<USD, EUR, CNY, GBP, JPY>>

\* a typed list with blanks, an empty field, lower case and an unknown code
C6_Witness ==
    /\ pc = "fetch"
    /\ Len(stdin) = 2
    /\ ~stdin[2].raises
    /\ \E i \in 1..Len(stdin[2].text) : stdin[2].text[i] = " "
    /\ Len(selected) = 3
    /\ Cardinality(Commas(stdin[2].text)) = 3
    /\ selected[1] = CNY
    /\ selected[2] = <<"U">>
    /\ selected[3] = EUR

(***************************************************************************)
(* C7.  For every analyzed entry the analyzer's change is value -         *)
(* previous, and its change_percent is change / previous * 100, or 0      *)
(* when previous is 0, in which case nothing is raised.                   *)
(***************************************************************************)
C7_ChangeAndPercent ==
    Analyzed =>
        /\ Len(locals) = Len(currencies.rows)
        /\ \A i \in 1..Len(locals) :
             LET entry == data.Valute[locals[i].code]
                 pct == locals[i].change_percent
             IN  /\ locals[i].code = currencies.rows[i].Code
                 /\ locals[i].change = entry.Value - entry.Previous
                 /\ pct.den # 0
                 /\ entry.Previous # 0 =>
                      pct.num * entry.Previous = locals[i].change * 100 * pct.den
                 /\ entry.Previous = 0 => pct.num = 0
        /\ error = "none" \/ Happened("write_csv")

C7_Witness ==
    /\ Analyzed
    /\ \E i \in 1..Len(locals) :
         /\ data.Valute[locals[i].code].Previous = 0
         /\ locals[i].change > 0
         /\ locals[i].change_percent.num = 0
         /\ currencies.rows[i].ChangePercent = 0
    /\ \E i \in 1..Len(locals) :
         /\ data.Valute[locals[i].code].Previous # 0
         /\ locals[i].change < 0
         /\ currencies.rows[i].ChangePercent < 0

(***************************************************************************)
(* C8.  Whenever the fetch succeeds and some requested code is in the     *)
(* snapshot, the run completes with the CSV, the JSON and the text report *)
(* written, the report holding one line per analyzed currency, also when  *)
(* neither USD nor EUR is among the matched codes (file system failures   *)
(* aside).                                                                 *)
(***************************************************************************)
C8_MatchedRunCompletes ==
    ( /\ RunEnded
      /\ fetchOutcome = "ok"
      /\ ~NothingMatches
      /\ error # "OSError" ) =>
        /\ pc = "done"
        /\ csvFile.status = "written"
        /\ jsonFile.status = "written"
        /\ reportFile.status = "written"
        /\ Len(reportFile.content.lines) = Len(currencies.rows)

StageOrder ==
    <<"select", "fetch", "analyze", "write_csv", "write_json",
      "generate_report", "write_report">>

(***************************************************************************)
(* C9.  The stages of a run happen in the order selection, fetch,         *)
(* analyze, CSV write, JSON write, report write, each at most once; no    *)
(* file is touched before a successful fetch and a non-empty analysis;    *)
(* the JSON is not touched before the CSV is complete, nor the report     *)
(* before the CSV and the JSON are.                                       *)
(***************************************************************************)
C9_StagesInOrder ==
    /\ Len(events) <= Len(StageOrder)
    /\ events = SubSeq(StageOrder, 1, Len(events))
    /\ ~NoFileTouched =>
         /\ fetchOutcome = "ok"
         /\ Analyzed
         /\ currencies.rows # <<>>
    /\ Happened("write_csv") =>
         /\ fetchOutcome = "ok"
         /\ Analyzed
         /\ currencies.rows # <<>>
    /\ (jsonFile # Absent \/ Happened("write_json")) => csvFile.status = "written"
    /\ (reportFile # Absent \/ Happened("write_report")) =>
         /\ csvFile.status = "written"
         /\ jsonFile.status = "written"
         /\ csvFile.content = currencies.rows
         /\ jsonFile.content = currencies.rows

\* the report write failed and the CSV and the JSON stay behind
C9_Witness ==
    /\ pc = "crashed"
    /\ error = "OSError"
    /\ Happened("write_report")
    /\ reportFile.status = "partial"
    /\ csvFile.status = "written"
    /\ jsonFile.status = "written"

(***************************************************************************)
(* C10.  The recommendation of a record and its persisted Change agree in *)
(* sign, so a best-to-buy currency is reported whenever some record is    *)
(* recommended as Decline or StrongDecline, and a best-to-sell currency   *)
(* whenever some record is recommended as Growth or StrongGrowth.         *)
(***************************************************************************)
C10_TierMatchesPersistedSign ==
    /\ Analyzed =>
         \A i \in 1..Len(currencies.rows) :
            LET row == currencies.rows[i] IN
            /\ row.Recommendation \in {"Growth", "StrongGrowth"} <=> row.Change > 0
            /\ row.Recommendation \in {"Decline", "StrongDecline"} <=> row.Change < 0
            /\ row.Recommendation = "Unchanged" <=> row.Change = 0
    /\ ReportRan =>
         /\ (\E i \in 1..Len(df.rows) :
                df.rows[i].Recommendation \in {"Decline", "StrongDecline"})
              => ~best_to_buy.empty
         /\ (\E i \in 1..Len(df.rows) :
                df.rows[i].Recommendation \in {"Growth", "StrongGrowth"})
              => ~best_to_sell.empty

====
